---------------------------- MODULE Spec2Model ----------------------------
(***************************************************************************)
(* Model of the contacts backend: the fixed-window rate limiter            *)
(* (service/rate_limiter.py), run sequentially and on concurrent worker    *)
(* threads, and the auth service (service/auth.py) over the users table    *)
(* (repository/user.py).                                                   *)
(***************************************************************************)
EXTENDS Integers, Sequences, FiniteSets, TLC

(***************************************************************************)
(* Program constants.                                                      *)
(***************************************************************************)
max_requests == 3
window_time == 120
ACCESS_TOKEN_EXPIRE_MINUTES == 30
REFRESH_TOKEN_EXPIRATION == 1440
DEFAULT_ACCESS_MINUTES == 15
DEFAULT_REFRESH_MINUTES == 1000
OTP_MIN == 100000
OTP_MAX == 999999
SECRET_KEY == "SECRET"

(***************************************************************************)
(* Bounds of the model.                                                    *)
(***************************************************************************)
MaxClock == 250
MaxTicks == 2
MaxTokens == 4
MaxCalls == 2
MaxCClock == 125
MaxContacts == 2
MaxSessions == 3
MaxCommits == 1
MaxDenied == 2
MaxUsers == 3

Clients == {"c1", "c2"}
ClockSteps == {40, 41}
GateSteps == {window_time + 1}
None == <<>>

VARIABLES
    \* sequential rate limiter
    requests,         \* RateLimiter.requests: client -> None or <<start, count>>
    clock,            \* time.time(), seconds
    rlResp,           \* outcome of the last limit_allowed call
    allowedInWindow,  \* history: calls allowed since the client's window start
    deniedCalls,      \* history: calls denied in the client's window, kept over
                      \* the call that opens the next window (counts to MaxDenied)
    \* rate limiter on worker threads
    cRequests,        \* RateLimiter.requests: client -> reference of a list (0 = absent)
    cHeap,            \* the list objects: reference -> <<start, count>>
    cClock,           \* time.time(), seconds
    th,               \* per thread: position in is_allowed and its locals
    cAllowed,         \* history: calls allowed since the client's window start
    cWinStart,        \* history: the window start cAllowed counts from
    \* auth service
    users,            \* table users: sequence of rows
    now,              \* datetime.utcnow(), minutes
    ticks,            \* number of clock advances so far
    issued,           \* tokens handed out by the service
    sent,             \* send_email calls, in order
    resp,             \* outcome of the last auth operation
    hist,             \* history per email: OTPs used to activate, those used
                      \* before a later login, and the last login's draw
    \* contacts
    contacts,         \* table contacts: set of rows
    contact_seq,      \* last value of the contacts.id sequence
    \* database sessions
    session_log,      \* per session created: its commit/rollback/close calls
    req,              \* per request in flight: its position and its session
    wRecord,          \* one client alone: its record in RateLimiter.requests
    wTime,            \* one client alone: time.time()
    wAllowedAt,       \* history: the times of that client's allowed calls
    signups           \* per signup request in flight: its position and locals

rlVars == <<requests, clock, rlResp, allowedInWindow, deniedCalls>>
cVars == <<cRequests, cHeap, cClock, th, cAllowed, cWinStart>>
authVars == <<users, now, ticks, issued, sent, resp, hist>>
ctVars == <<contacts, contact_seq>>
dbVars == <<session_log, req>>
wVars == <<wRecord, wTime, wAllowedAt>>
suVars == <<signups>>
vars == <<requests, clock, rlResp, allowedInWindow, deniedCalls,
          cRequests, cHeap, cClock, th, cAllowed, cWinStart,
          users, now, ticks, issued, sent, resp, hist,
          contacts, contact_seq, session_log, req,
          wRecord, wTime, wAllowedAt, signups>>

(***************************************************************************)
(* Rate limiter, one call at a time.                                       *)
(***************************************************************************)
NoRlResp == [client |-> "", time |-> 0, allowed |-> FALSE, status |-> 0]

\* is_allowed with the count test off by one (<= for <)
is_allowed_inclusive(request_info, current_time) ==
    IF request_info = None
    THEN [rec |-> <<current_time, 1>>, ok |-> TRUE]
    ELSE IF current_time - request_info[1] > window_time
    THEN [rec |-> <<current_time, 1>>, ok |-> TRUE]
    ELSE IF request_info[2] <= max_requests
    THEN [rec |-> <<request_info[1], request_info[2] + 1>>, ok |-> TRUE]
    ELSE [rec |-> request_info, ok |-> FALSE]

\* is_allowed resetting the window already at the window's last second (>= for >)
is_allowed_reset_at_edge(request_info, current_time) ==
    IF request_info = None
    THEN [rec |-> <<current_time, 1>>, ok |-> TRUE]
    ELSE IF current_time - request_info[1] >= window_time
    THEN [rec |-> <<current_time, 1>>, ok |-> TRUE]
    ELSE IF request_info[2] < max_requests
    THEN [rec |-> <<request_info[1], request_info[2] + 1>>, ok |-> TRUE]
    ELSE [rec |-> request_info, ok |-> FALSE]

\* is_allowed opening a window with count 0
is_allowed_from_zero(request_info, current_time) ==
    IF request_info = None
    THEN [rec |-> <<current_time, 0>>, ok |-> TRUE]
    ELSE IF current_time - request_info[1] > window_time
    THEN [rec |-> <<current_time, 0>>, ok |-> TRUE]
    ELSE IF request_info[2] < max_requests
    THEN [rec |-> <<request_info[1], request_info[2] + 1>>, ok |-> TRUE]
    ELSE [rec |-> request_info, ok |-> FALSE]

\* is_allowed restarting the window at a denied call
is_allowed_denial_slides(request_info, current_time) ==
    IF request_info = None
    THEN [rec |-> <<current_time, 1>>, ok |-> TRUE]
    ELSE IF current_time - request_info[1] > window_time
    THEN [rec |-> <<current_time, 1>>, ok |-> TRUE]
    ELSE IF request_info[2] < max_requests
    THEN [rec |-> <<request_info[1], request_info[2] + 1>>, ok |-> TRUE]
    ELSE [rec |-> <<current_time, request_info[2]>>, ok |-> FALSE]

\* is_allowed with a window that ends after half of window_time
is_allowed_short_window(request_info, current_time) ==
    IF request_info = None
    THEN [rec |-> <<current_time, 1>>, ok |-> TRUE]
    ELSE IF current_time - request_info[1] > window_time \div 2
    THEN [rec |-> <<current_time, 1>>, ok |-> TRUE]
    ELSE IF request_info[2] < max_requests
    THEN [rec |-> <<request_info[1], request_info[2] + 1>>, ok |-> TRUE]
    ELSE [rec |-> request_info, ok |-> FALSE]

\* RateLimiter.is_allowed: the record left for the client and the result.
is_allowed(request_info, current_time) ==
    IF request_info = None
    THEN [rec |-> <<current_time, 1>>, ok |-> TRUE]
    ELSE IF current_time - request_info[1] > window_time
    THEN [rec |-> <<current_time, 1>>, ok |-> TRUE]
    ELSE IF request_info[2] < max_requests
    THEN [rec |-> <<request_info[1], request_info[2] + 1>>, ok |-> TRUE]
    ELSE [rec |-> request_info, ok |-> FALSE]

\* rl=Depends(limit_allowed), resolved for a request of client_id before the
\* handler is entered: True, or HTTPException(429)
rl(client_id) ==
    LET r == is_allowed(requests[client_id], clock) IN
    /\ requests' = [requests EXCEPT ![client_id] = r.rec]
    /\ rlResp' = [client |-> client_id, time |-> clock, allowed |-> r.ok,
                  status |-> IF r.ok THEN 200 ELSE 429]
    /\ allowedInWindow' =
         [allowedInWindow EXCEPT ![client_id] =
            IF ~r.ok THEN @
            ELSE IF requests[client_id] # None /\ r.rec[1] = requests[client_id][1]
                 THEN @ + 1
                 ELSE 1]
    /\ deniedCalls' =
         [deniedCalls EXCEPT ![client_id] =
            IF ~r.ok THEN (IF @ < MaxDenied THEN @ + 1 ELSE @)
            ELSE IF r.rec[2] = 1 THEN @
            ELSE 0]

\* limit_allowed, called on its own
limit_allowed(client_id) ==
    /\ rl(client_id)
    /\ UNCHANGED <<clock, cVars, authVars, ctVars, dbVars, wVars, suVars>>

AdvanceClock(d) ==
    /\ clock + d <= MaxClock
    /\ clock' = clock + d
    /\ UNCHANGED <<requests, rlResp, allowedInWindow, deniedCalls, cVars, authVars, ctVars, dbVars, wVars, suVars>>

InitRL ==
    /\ requests = [c \in Clients |-> None]
    /\ clock = 0
    /\ rlResp = NoRlResp
    /\ allowedInWindow = [c \in Clients |-> 0]
    /\ deniedCalls = [c \in Clients |-> 0]

(***************************************************************************)
(* Rate limiter on worker threads: limit_allowed is a plain def, so the    *)
(* framework runs it in its thread pool and is_allowed interleaves between *)
(* bytecodes.  RateLimiter holds no lock.                                  *)
(***************************************************************************)
Threads == {"t1", "t2"}
CSteps == {60, 61}

IdleThread == [pc |-> "idle", client |-> "", current_time |-> 0,
               request_info |-> 0, last_request_time |-> 0,
               request_count |-> 0, obj |-> 0, val |-> 0, calls |-> 0,
               ret |-> FALSE]

\* history bookkeeping at the return of an allowed call
CountAllowed(c, heap, reqs) ==
    LET s == heap[reqs[c]][1] IN
    /\ cAllowed' = [cAllowed EXCEPT ![c] = IF s = cWinStart[c] THEN @ + 1 ELSE 1]
    /\ cWinStart' = [cWinStart EXCEPT ![c] = s]

\* limit_allowed entered on a worker thread for request.client
T_Call(t, c) ==
    /\ th[t].pc = "idle"
    /\ th[t].calls < MaxCalls
    /\ th' = [th EXCEPT ![t].pc = "L61", ![t].client = c,
                        ![t].calls = @ + 1]
    /\ UNCHANGED <<cRequests, cHeap, cClock, cAllowed, cWinStart, rlVars, authVars, ctVars, dbVars, wVars, suVars>>

\* current_time = time.time()
T_L61(t) ==
    /\ th[t].pc = "L61"
    /\ th' = [th EXCEPT ![t].pc = "L62", ![t].current_time = cClock]
    /\ UNCHANGED <<cRequests, cHeap, cClock, cAllowed, cWinStart, rlVars, authVars, ctVars, dbVars, wVars, suVars>>

\* request_info = self.requests.get(client_id); if request_info is None
T_L62(t) ==
    /\ th[t].pc = "L62"
    /\ LET ri == cRequests[th[t].client] IN
       th' = [th EXCEPT ![t].request_info = ri,
                        ![t].pc = IF ri = 0 THEN "L65" ELSE "L68"]
    /\ UNCHANGED <<cRequests, cHeap, cClock, cAllowed, cWinStart, rlVars, authVars, ctVars, dbVars, wVars, suVars>>

\* self.requests[client_id] = [current_time, 1]; return True  (lines 65 and 71)
T_Store(t) ==
    /\ th[t].pc \in {"L65", "L71"}
    /\ LET c == th[t].client
           heap == Append(cHeap, <<th[t].current_time, 1>>)
           reqs == [cRequests EXCEPT ![c] = Len(heap)] IN
       /\ cHeap' = heap
       /\ cRequests' = reqs
       /\ CountAllowed(c, heap, reqs)
    /\ th' = [th EXCEPT ![t].pc = "idle", ![t].ret = TRUE]
    /\ UNCHANGED <<cClock, rlVars, authVars, ctVars, dbVars, wVars, suVars>>

\* last_request_time, request_count = request_info; the two tests on them
T_L68(t) ==
    /\ th[t].pc = "L68"
    /\ LET lrt == cHeap[th[t].request_info][1]
           rc == cHeap[th[t].request_info][2] IN
       th' = [th EXCEPT ![t].last_request_time = lrt,
                        ![t].request_count = rc,
                        ![t].pc = IF th[t].current_time - lrt > window_time
                                  THEN "L71"
                                  ELSE IF rc < max_requests THEN "L75a"
                                  ELSE "idle",
                        ![t].ret = FALSE]
    /\ UNCHANGED <<cRequests, cHeap, cClock, cAllowed, cWinStart, rlVars, authVars, ctVars, dbVars, wVars, suVars>>

\* self.requests[client_id][1] += 1: load the list
T_L75a(t) ==
    /\ th[t].pc = "L75a"
    /\ th' = [th EXCEPT ![t].obj = cRequests[th[t].client], ![t].pc = "L75b"]
    /\ UNCHANGED <<cRequests, cHeap, cClock, cAllowed, cWinStart, rlVars, authVars, ctVars, dbVars, wVars, suVars>>

\* ... load its element 1
T_L75b(t) ==
    /\ th[t].pc = "L75b"
    /\ th' = [th EXCEPT ![t].val = cHeap[th[t].obj][2], ![t].pc = "L75c"]
    /\ UNCHANGED <<cRequests, cHeap, cClock, cAllowed, cWinStart, rlVars, authVars, ctVars, dbVars, wVars, suVars>>

\* ... store element 1 + 1; return True
T_L75c(t) ==
    /\ th[t].pc = "L75c"
    /\ LET heap == [cHeap EXCEPT ![th[t].obj][2] = th[t].val + 1] IN
       /\ cHeap' = heap
       /\ CountAllowed(th[t].client, heap, cRequests)
    /\ th' = [th EXCEPT ![t].pc = "idle", ![t].ret = TRUE]
    /\ UNCHANGED <<cRequests, cClock, rlVars, authVars, ctVars, dbVars, wVars, suVars>>

CAdvance(d) ==
    /\ cClock + d <= MaxCClock
    /\ cClock' = cClock + d
    /\ UNCHANGED <<cRequests, cHeap, th, cAllowed, cWinStart, rlVars, authVars, ctVars, dbVars, wVars, suVars>>

InitConc ==
    /\ cRequests = [c \in Clients |-> 0]
    /\ cHeap = <<>>
    /\ cClock = 0
    /\ th = [t \in Threads |-> IdleThread]
    /\ cAllowed = [c \in Clients |-> 0]
    /\ cWinStart = [c \in Clients |-> -1]

(***************************************************************************)
(* Auth service over the users table.                                      *)
(***************************************************************************)
Emails == {"a@x.io", "b@x.io"}
Passwords == {"pw1", "pw2"}
Salts == {"salt1"}
OtpDraws == {OTP_MIN, OTP_MAX}
OtpInputs == OtpDraws \cup {0}
TickSteps == {16, 1441}
TokEmails == {"a@x.io"}
TokPasswords == {"pw1"}
TokOtpDraws == {OTP_MIN}

NoUser == [id |-> 0, email |-> "", passwd |-> <<>>, salt |-> "",
           is_active |-> FALSE, otp |-> None]
\* scalar_one_or_none on more than one row raises MultipleResultsFound
MultipleResultsFound == [id |-> -1, email |-> "", passwd |-> <<>>, salt |-> "",
                         is_active |-> FALSE, otp |-> None]
NoToken == [sub |-> "", exp |-> 0, iat |-> 0, scope |-> "", key |-> ""]
ForgedTokens == {[sub |-> "a@x.io", exp |-> 1000000, iat |-> 0, scope |-> sc,
                  key |-> "forged"] : sc \in {"access_token", "refresh_token"}}

\* tokens signed with the service's key that it did not hand out in this run
\* (minted against an earlier database): the shape create_refresh_token gives
ForeignTokens == {[sub |-> e, exp |-> 1000000, iat |-> 0, scope |-> "refresh_token",
                   key |-> SECRET_KEY] : e \in {"a@x.io", "ghost@x.io"}}

Resp(op, status, detail, email, otp, token, user, at, rt) ==
    [op |-> op, status |-> status, detail |-> detail, email |-> email,
     otp |-> otp, token |-> token, user |-> user,
     access_token |-> at, refresh_token |-> rt]

\* bcrypt.hashpw: the digest embeds the salt and is a function of both
hashpw(pwd, salt) == <<salt, pwd>>

\* hash_pwd with the salt gensalt drew
hash_pwd(pwd, salt) == [passwd |-> hashpw(pwd, salt), salt |-> salt]

\* pwd_context.verify: rehash with the digest's salt and compare
verify_password(plain_password, hashed_password) ==
    hashpw(plain_password, hashed_password[1]) = hashed_password

\* find_user filtering on the wrong column: no row ever matches
find_user_miss(table, email) == NoUser

\* repository find_user: select by email, scalar_one_or_none
find_user(table, email) ==
    LET rows == {i \in 1..Len(table) : table[i].email = email} IN
    IF rows = {} THEN NoUser
    ELSE IF Cardinality(rows) = 1 THEN table[CHOOSE i \in rows : TRUE]
    ELSE MultipleResultsFound

\* service get_user
get_user(table, email) == find_user(table, email)

\* authenticate_user: the row, or None
authenticate_user(table, email, password) ==
    LET user == get_user(table, email) IN
    IF user.id <= 0 THEN user
    ELSE IF ~verify_password(password, user.passwd) THEN NoUser
    ELSE user

\* repository create_user with the is_active column defaulting to True
repo_create_user_active(table, body) ==
    Append(table, [id |-> Len(table) + 1, email |-> body.email,
                   passwd |-> body.passwd, salt |-> body.salt,
                   is_active |-> TRUE, otp |-> None])

\* repository create_user: insert, commit, refresh
repo_create_user(table, body) ==
    Append(table, [id |-> Len(table) + 1, email |-> body.email,
                   passwd |-> body.passwd, salt |-> body.salt,
                   is_active |-> FALSE, otp |-> None])

\* update_otp ignoring what randint drew: always the lower end of the range
update_otp_fixed(table, id, otp, draw) ==
    LET v == IF otp = None \/ otp = <<0>> THEN OTP_MIN ELSE otp[1] IN
    [table |-> [table EXCEPT ![id].otp = <<v>>], otp |-> v]

\* update_otp drawing only when the row has no OTP yet
update_otp_stale(table, id, otp, draw) ==
    LET v == IF table[id].otp # None THEN table[id].otp[1]
             ELSE IF otp = None \/ otp = <<0>> THEN draw ELSE otp[1] IN
    [table |-> [table EXCEPT ![id].otp = <<v>>], otp |-> v]

\* repository update_otp; draw is what randint(100000, 999999) returns
update_otp(table, id, otp, draw) ==
    LET v == IF otp = None \/ otp = <<0>> THEN draw ELSE otp[1] IN
    [table |-> [table EXCEPT ![id].otp = <<v>>], otp |-> v]

\* user_activation flipping the column instead of storing the argument
user_activation_toggle(table, id, is_active) ==
    [table EXCEPT ![id].is_active = ~table[id].is_active]

\* repository user_activation
user_activation(table, id, is_active) ==
    [table EXCEPT ![id].is_active = is_active]

\* jwt.encode
jwt_encode(sub, exp, iat, scope, key) ==
    [sub |-> sub, exp |-> exp, iat |-> iat, scope |-> scope, key |-> key]

\* jwt.decode that never checks exp
jwt_decode_no_exp(token, key, t) ==
    IF token.key # key THEN [ok |-> FALSE, payload |-> NoToken]
    ELSE [ok |-> TRUE, payload |-> token]

\* jwt.decode: JWTError on a bad signature or an expired token
jwt_decode(token, key, t) ==
    IF token.key # key THEN [ok |-> FALSE, payload |-> NoToken]
    ELSE IF t > token.exp THEN [ok |-> FALSE, payload |-> NoToken]
    ELSE [ok |-> TRUE, payload |-> token]

\* create_access_token; expires_delta 0 stands for None (both are falsy)
create_access_token(sub, expires_delta, t) ==
    LET expire == IF expires_delta # 0 THEN t + expires_delta
                  ELSE t + DEFAULT_ACCESS_MINUTES IN
    jwt_encode(sub, expire, t, "access_token", SECRET_KEY)

\* create_refresh_token
create_refresh_token(sub, expires_delta, t) ==
    LET expire == IF expires_delta # 0 THEN t + expires_delta
                  ELSE t + DEFAULT_REFRESH_MINUTES IN
    jwt_encode(sub, expire, t, "refresh_token", SECRET_KEY)

\* decode_refresh_token without the scope test
decode_refresh_token_any_scope(refresh_token, t) ==
    LET d == jwt_decode(refresh_token, SECRET_KEY, t) IN
    IF ~d.ok
    THEN [status |-> 401, detail |-> "Could not validate credentials", email |-> ""]
    ELSE [status |-> 200, detail |-> "", email |-> d.payload.sub]

\* decode_refresh_token: the email, or HTTPException(401)
decode_refresh_token(refresh_token, t) ==
    LET d == jwt_decode(refresh_token, SECRET_KEY, t) IN
    IF ~d.ok
    THEN [status |-> 401, detail |-> "Could not validate credentials", email |-> ""]
    ELSE IF d.payload.scope = "refresh_token"
    THEN [status |-> 200, detail |-> "", email |-> d.payload.sub]
    ELSE [status |-> 401, detail |-> "Invalid scope for token", email |-> ""]

\* get_current_user: the user of an access token, or HTTPException(401)
get_current_user(table, token, t) ==
    LET d == jwt_decode(token, SECRET_KEY, t)
        credentials_exception ==
            [status |-> 401, detail |-> "Could not validate credentials",
             user |-> NoUser] IN
    IF ~d.ok THEN credentials_exception
    ELSE IF d.payload.scope # "access_token" THEN credentials_exception
    ELSE LET user == get_user(table, d.payload.sub) IN
         IF user.id = -1
         THEN [status |-> 500, detail |-> "MultipleResultsFound", user |-> NoUser]
         ELSE IF user = NoUser THEN credentials_exception
         ELSE [status |-> 200, detail |-> "", user |-> user]

\* generate_token drawing a fresh OTP before it tests is_active
generate_token_otp_first(table, username, password, draw, t) ==
    LET user == authenticate_user(table, username, password) IN
    IF user.id = -1
    THEN [table |-> table, status |-> 500, detail |-> "MultipleResultsFound",
          access_token |-> NoToken, refresh_token |-> NoToken]
    ELSE IF user = NoUser
    THEN [table |-> table, status |-> 500, detail |-> "AttributeError",
          access_token |-> NoToken, refresh_token |-> NoToken]
    ELSE IF user.is_active
    THEN [table |-> update_otp(table, user.id, None, draw).table,
          status |-> 201, detail |-> "",
          access_token |->
              create_access_token(user.email, ACCESS_TOKEN_EXPIRE_MINUTES, t),
          refresh_token |->
              create_refresh_token(user.email, REFRESH_TOKEN_EXPIRATION, t)]
    ELSE [table |-> update_otp(table, user.id, None, draw).table,
          status |-> 401, detail |-> "User is not activated",
          access_token |-> NoToken, refresh_token |-> NoToken]

\* generate_token without the is_active test
generate_token_any_user(table, username, password, draw, t) ==
    LET user == authenticate_user(table, username, password) IN
    IF user.id = -1
    THEN [table |-> table, status |-> 500, detail |-> "MultipleResultsFound",
          access_token |-> NoToken, refresh_token |-> NoToken]
    ELSE IF user = NoUser
    THEN [table |-> table, status |-> 500, detail |-> "AttributeError",
          access_token |-> NoToken, refresh_token |-> NoToken]
    ELSE [table |-> update_otp(table, user.id, None, draw).table,
          status |-> 201, detail |-> "",
          access_token |->
              create_access_token(user.email, ACCESS_TOKEN_EXPIRE_MINUTES, t),
          refresh_token |->
              create_refresh_token(user.email, REFRESH_TOKEN_EXPIRATION, t)]

\* generate_token (login)
generate_token(table, username, password, draw, t) ==
    LET user == authenticate_user(table, username, password) IN
    IF user.id = -1
    THEN [table |-> table, status |-> 500, detail |-> "MultipleResultsFound",
          access_token |-> NoToken, refresh_token |-> NoToken]
    ELSE IF user = NoUser
    \* "not user and not user.is_active" reads is_active of None
    THEN [table |-> table, status |-> 500, detail |-> "AttributeError",
          access_token |-> NoToken, refresh_token |-> NoToken]
    ELSE IF user.is_active
    THEN [table |-> update_otp(table, user.id, None, draw).table,
          status |-> 201, detail |-> "",
          access_token |->
              create_access_token(user.email, ACCESS_TOKEN_EXPIRE_MINUTES, t),
          refresh_token |->
              create_refresh_token(user.email, REFRESH_TOKEN_EXPIRATION, t)]
    ELSE [table |-> table, status |-> 401, detail |-> "User is not activated",
          access_token |-> NoToken, refresh_token |-> NoToken]

\* send_email: one call; smtp_ok is whether the SMTP exchange went through,
\* and an exception raised by it is caught and printed
send_email(mails, subject, otp, to_email, smtp_ok) ==
    Append(mails, [subject |-> subject, otp |-> otp, to |-> to_email,
                   delivered |-> smtp_ok])

\* create_user letting the SMTP error out: the request ends in a 500 and the
\* session is closed without the caller seeing the user
create_user_mail_required(table, mails, email, passwd, salt, draw, smtp_ok) ==
    LET user == find_user(table, email) IN
    IF user.id = -1
    THEN [table |-> table, sent |-> mails, status |-> 500,
          detail |-> "MultipleResultsFound", user |-> NoUser]
    ELSE IF user = NoUser
    THEN LET h == hash_pwd(passwd, salt)
             created == repo_create_user(table,
                            [email |-> email, passwd |-> h.passwd, salt |-> h.salt])
             id == Len(created)
             upd == update_otp(created, id, None, draw) IN
         IF smtp_ok
         THEN [table |-> upd.table,
               sent |-> send_email(mails, "Your OTP for registration", upd.otp,
                                   upd.table[id].email, smtp_ok),
               status |-> 201, detail |-> "", user |-> upd.table[id]]
         ELSE [table |-> upd.table,
               sent |-> send_email(mails, "Your OTP for registration", upd.otp,
                                   upd.table[id].email, smtp_ok),
               status |-> 500, detail |-> "SMTPException", user |-> NoUser]
    ELSE [table |-> table, sent |-> mails, status |-> 409,
          detail |-> "User already exists", user |-> NoUser]

\* create_user (signup)
create_user(table, mails, email, passwd, salt, draw, smtp_ok) ==
    LET user == find_user(table, email) IN
    IF user.id = -1
    THEN [table |-> table, sent |-> mails, status |-> 500,
          detail |-> "MultipleResultsFound", user |-> NoUser]
    ELSE IF user = NoUser
    THEN LET h == hash_pwd(passwd, salt)
             created == repo_create_user(table,
                            [email |-> email, passwd |-> h.passwd, salt |-> h.salt])
             id == Len(created)
             upd == update_otp(created, id, None, draw) IN
         [table |-> upd.table,
          sent |-> send_email(mails, "Your OTP for registration", upd.otp,
                              upd.table[id].email, smtp_ok),
          status |-> 201, detail |-> "", user |-> upd.table[id]]
    ELSE [table |-> table, sent |-> mails, status |-> 409,
          detail |-> "User already exists", user |-> NoUser]

\* refresh_user_token without the is_active test
refresh_user_token_no_active(table, token, t) ==
    LET dec == decode_refresh_token(token, t) IN
    IF dec.status # 200
    THEN [status |-> dec.status, detail |-> dec.detail,
          access_token |-> NoToken, refresh_token |-> NoToken]
    ELSE LET user == find_user(table, dec.email) IN
         IF user.id > 0
         THEN [status |-> 200, detail |-> "",
               access_token |-> create_access_token(dec.email, 0, t),
               refresh_token |-> create_refresh_token(dec.email, 0, t)]
         ELSE [status |-> 401, detail |-> "Invalid token",
               access_token |-> NoToken, refresh_token |-> NoToken]

\* refresh_user_token
refresh_user_token(table, token, t) ==
    LET dec == decode_refresh_token(token, t) IN
    IF dec.status # 200
    THEN [status |-> dec.status, detail |-> dec.detail,
          access_token |-> NoToken, refresh_token |-> NoToken]
    ELSE LET user == find_user(table, dec.email) IN
         IF user.id = -1
         THEN [status |-> 500, detail |-> "MultipleResultsFound",
               access_token |-> NoToken, refresh_token |-> NoToken]
         ELSE IF user # NoUser /\ user.is_active
         THEN [status |-> 200, detail |-> "",
               access_token |-> create_access_token(dec.email, 0, t),
               refresh_token |-> create_refresh_token(dec.email, 0, t)]
         ELSE [status |-> 401, detail |-> "Invalid token",
               access_token |-> NoToken, refresh_token |-> NoToken]

\* activate_user without the OTP comparison
activate_user_no_check(table, user_mail, otp) ==
    LET user == find_user(table, user_mail) IN
    IF user.id > 0
    THEN LET activated == user_activation(table, user.id, TRUE) IN
         [table |-> activated, status |-> 200, detail |-> "",
          user |-> activated[user.id]]
    ELSE [table |-> table, status |-> 401, detail |-> "User is not found",
          user |-> NoUser]

\* activate_user
activate_user(table, user_mail, otp) ==
    LET user == find_user(table, user_mail) IN
    IF user.id = -1
    THEN [table |-> table, status |-> 500, detail |-> "MultipleResultsFound",
          user |-> NoUser]
    ELSE IF user # NoUser /\ user.otp = <<otp>>
    THEN LET activated == user_activation(table, user.id, TRUE) IN
         [table |-> activated, status |-> 200, detail |-> "",
          user |-> activated[user.id]]
    \* on a mismatch the "Wrong activation password" exception is built but
    \* not raised, and control reaches the final raise
    ELSE [table |-> table, status |-> 401, detail |-> "User is not found",
          user |-> NoUser]

(***************************************************************************)
(* The endpoints of routers/auth.py, one request at a time.                *)
(***************************************************************************)
signup(email, passwd, salt, draw, smtp_ok) ==
    LET r == create_user(users, sent, email, passwd, salt, draw, smtp_ok) IN
    /\ users' = r.table
    /\ sent' = r.sent
    /\ resp' = Resp("signup", r.status, r.detail, email, 0, NoToken, r.user,
                    NoToken, NoToken)
    /\ UNCHANGED <<now, ticks, issued, hist, rlVars, cVars, ctVars, dbVars, wVars, suVars>>

login_for_access_token(username, password, draw) ==
    LET r == generate_token(users, username, password, draw, now)
        new == IF r.status = 201 THEN {r.access_token, r.refresh_token} ELSE {} IN
    /\ Cardinality(issued \cup new) <= MaxTokens
    /\ users' = r.table
    /\ issued' = issued \cup new
    /\ resp' = Resp("login", r.status, r.detail, username, 0, NoToken, NoUser,
                    r.access_token, r.refresh_token)
    /\ hist' = IF r.status = 201
               THEN [hist EXCEPT ![username].stale = @ \cup hist[username].used,
                                 ![username].draw = draw]
               ELSE hist
    /\ UNCHANGED <<now, ticks, sent, rlVars, cVars, ctVars, dbVars, wVars, suVars>>

\* POST /auth/login as the framework serves it for a client: the dependencies
\* first, the handler only if none of them raised
login_request(client, username, password, draw) ==
    LET r == generate_token(users, username, password, draw, now)
        new == IF r.status = 201 THEN {r.access_token, r.refresh_token} ELSE {} IN
    /\ rl(client)
    /\ IF rlResp'.allowed
       THEN /\ Cardinality(issued \cup new) <= MaxTokens
            /\ users' = r.table
            /\ issued' = issued \cup new
            /\ resp' = Resp("login", r.status, r.detail, username, 0, NoToken,
                            NoUser, r.access_token, r.refresh_token)
            /\ hist' = IF r.status = 201
                       THEN [hist EXCEPT ![username].stale = @ \cup hist[username].used,
                                         ![username].draw = draw]
                       ELSE hist
       ELSE /\ resp' = Resp("login", 429, "Too Many Requests", username, 0,
                            NoToken, NoUser, NoToken, NoToken)
            /\ UNCHANGED <<users, issued, hist>>
    /\ UNCHANGED <<clock, now, ticks, sent, cVars, ctVars, dbVars, wVars, suVars>>

user_path(token) ==
    LET r == get_current_user(users, token, now) IN
    /\ resp' = Resp("user", r.status, r.detail, "", 0, token, r.user,
                    NoToken, NoToken)
    /\ UNCHANGED <<users, now, ticks, issued, sent, hist, rlVars, cVars, ctVars, dbVars, wVars, suVars>>

refresh_token(token) ==
    LET r == refresh_user_token(users, token, now)
        new == IF r.status = 200 THEN {r.access_token, r.refresh_token} ELSE {} IN
    /\ Cardinality(issued \cup new) <= MaxTokens
    /\ issued' = issued \cup new
    /\ resp' = Resp("refresh", r.status, r.detail, "", 0, token, NoUser,
                    r.access_token, r.refresh_token)
    /\ UNCHANGED <<users, now, ticks, sent, hist, rlVars, cVars, ctVars, dbVars, wVars, suVars>>

activate(user_mail, otp) ==
    LET r == activate_user(users, user_mail, otp) IN
    /\ users' = r.table
    /\ resp' = Resp("activate", r.status, r.detail, user_mail, otp, NoToken,
                    r.user, NoToken, NoToken)
    /\ hist' = IF r.status = 200
               THEN [hist EXCEPT ![user_mail].used = @ \cup {otp}]
               ELSE hist
    /\ UNCHANGED <<now, ticks, issued, sent, rlVars, cVars, ctVars, dbVars, wVars, suVars>>

Tick(d) ==
    /\ ticks < MaxTicks
    /\ now' = now + d
    /\ ticks' = ticks + 1
    /\ UNCHANGED <<users, issued, sent, resp, hist, rlVars, cVars, ctVars, dbVars, wVars, suVars>>

InitAuth ==
    /\ users = <<>>
    /\ now = 0
    /\ ticks = 0
    /\ issued = {}
    /\ sent = <<>>
    /\ resp = Resp("", 0, "", "", 0, NoToken, NoUser, NoToken, NoToken)
    /\ hist = [e \in Emails |-> [used |-> {}, stale |-> {}, draw |-> 0]]

(***************************************************************************)
(* Contacts: repository/contact.py and routers/contact.py.                 *)
(***************************************************************************)
\* Contact.created_at / modified_at default: datetime.now() read once, when
\* entity/models.py is imported
ImportTime == 0
\* get_birthday_list: horizon = timedelta(days=7)
horizon == 7

ContactIds == 1..MaxContacts
Limits == {10}
Offsets == {0, 1}
\* ContactCreateSchema values; dates are day numbers
ContactBodies ==
    {[first_name |-> <<"A", "n", "n">>, last_name |-> <<"L", "e", "e">>,
      email |-> <<"a", "n", "n", "@", "x">>, birth_date |-> 8]}
\* ContactEditSchema values: a field is None or <<value>>
EditBodies ==
    {[first_name |-> << <<"E", "v", "e">> >>, last_name |-> None,
      email |-> None, birth_date |-> <<0>>]}
NoBody == [first_name |-> None, last_name |-> None, email |-> None,
           birth_date |-> None]
NameQueries == {<<"_", "n">>, None}
MailQueries == {<<"a", "%", "x">>, None}

NoContact == [id |-> 0, first_name |-> <<>>, last_name |-> <<>>, email |-> <<>>,
              birth_date |-> 0, created_by |-> 0, created_at |-> 0,
              modified_at |-> 0]

\* the response of a contact endpoint
CResp(op, status, detail, token, id, body, query, result) ==
    [op |-> op, status |-> status, detail |-> detail, token |-> token,
     id |-> id, body |-> body, query |-> query, result |-> result]

\* date.today(), as a day number, at minute t
today(t) == t \div 1440

Min(a, b) == IF a <= b THEN a ELSE b
Max(a, b) == IF a >= b THEN a ELSE b

\* SQL LIKE on character sequences: % is any run, _ any one character
RECURSIVE like(_, _)
like(s, pat) ==
    IF pat = <<>> THEN s = <<>>
    ELSE IF Head(pat) = "%"
    THEN like(s, Tail(pat)) \/ (s # <<>> /\ like(Tail(s), pat))
    ELSE /\ s # <<>>
         /\ (Head(pat) = "_" \/ Head(pat) = Head(s))
         /\ like(Tail(s), Tail(pat))

\* f"%{query}%"
contains(query) == <<"%">> \o query \o <<"%">>

\* repository get_contacts: the statement has no ORDER BY, so offset and limit
\* cut an order the database chooses; every result it can give
get_contacts(table, limit, offset, user_id) ==
    LET owned == {c \in table : c.created_by = user_id}
        k == Min(limit, Max(0, Cardinality(owned) - offset)) IN
    {r \in SUBSET owned : Cardinality(r) = k}

\* get_contact selecting by id alone
repo_get_contact_any_owner(table, contact_id, user_id) ==
    LET rows == {c \in table : c.id = contact_id} IN
    IF rows = {} THEN NoContact ELSE CHOOSE c \in rows : TRUE

\* repository get_contact: scalar_one_or_none over owner and id
repo_get_contact(table, contact_id, user_id) ==
    LET rows == {c \in table : c.created_by = user_id /\ c.id = contact_id} IN
    IF rows = {} THEN NoContact ELSE CHOOSE c \in rows : TRUE

\* create_contact without the setattr: created_by takes the column default, 1
create_contact_default_owner(table, seq, body, user_id) ==
    LET contact == [id |-> seq + 1, first_name |-> body.first_name,
                    last_name |-> body.last_name, email |-> body.email,
                    birth_date |-> body.birth_date, created_by |-> 1,
                    created_at |-> ImportTime, modified_at |-> ImportTime] IN
    [table |-> table \cup {contact}, seq |-> seq + 1, contact |-> contact]

\* repository create_contact: insert with the next id of the sequence
create_contact(table, seq, body, user_id) ==
    LET contact == [id |-> seq + 1, first_name |-> body.first_name,
                    last_name |-> body.last_name, email |-> body.email,
                    birth_date |-> body.birth_date, created_by |-> user_id,
                    created_at |-> ImportTime, modified_at |-> ImportTime] IN
    [table |-> table \cup {contact}, seq |-> seq + 1, contact |-> contact]

\* the setattr loop without the "is not None" test: None is stored too
set_fields_with_none(contact, body) ==
    [contact EXCEPT
        !.first_name = IF body.first_name # None THEN body.first_name[1] ELSE <<>>,
        !.last_name = IF body.last_name # None THEN body.last_name[1] ELSE <<>>,
        !.email = IF body.email # None THEN body.email[1] ELSE <<>>,
        !.birth_date = IF body.birth_date # None THEN body.birth_date[1] ELSE 0]

\* the setattr loop of edit_contact over the fields of the body
set_fields(contact, body) ==
    [contact EXCEPT
        !.first_name = IF body.first_name # None THEN body.first_name[1] ELSE @,
        !.last_name = IF body.last_name # None THEN body.last_name[1] ELSE @,
        !.email = IF body.email # None THEN body.email[1] ELSE @,
        !.birth_date = IF body.birth_date # None THEN body.birth_date[1] ELSE @]

\* repository edit_contact; setattr on None raises AttributeError
repo_edit_contact(table, contact_id, body, user_id, t) ==
    LET contact == repo_get_contact(table, contact_id, user_id) IN
    IF contact = NoContact
    THEN [table |-> table, status |-> 500, detail |-> "AttributeError",
          contact |-> NoContact]
    ELSE LET edited == [set_fields(contact, body) EXCEPT !.modified_at = t] IN
         [table |-> (table \ {contact}) \cup {edited}, status |-> 202,
          detail |-> "", contact |-> edited]

\* repository delete_contact; db.delete(None) raises UnmappedInstanceError
repo_delete_contact(table, contact_id, user_id) ==
    LET contact == repo_get_contact(table, contact_id, user_id) IN
    IF contact = NoContact
    THEN [table |-> table, status |-> 500, detail |-> "UnmappedInstanceError",
          contact |-> NoContact]
    ELSE [table |-> table \ {contact}, status |-> 200, detail |-> "",
          contact |-> contact]

\* repository get_contact_by_name
get_contact_by_name(table, name_query, user_id) ==
    {c \in table : /\ c.created_by = user_id
                   /\ \/ like(c.first_name, contains(name_query))
                      \/ like(c.last_name, contains(name_query))}

\* get_contact_by_mail without the created_by filter
get_contact_by_mail_any_owner(table, mail_query, user_id) ==
    {c \in table : like(c.email, contains(mail_query))}

\* repository get_contact_by_mail
get_contact_by_mail(table, mail_query, user_id) ==
    {c \in table : /\ c.created_by = user_id
                   /\ like(c.email, contains(mail_query))}

\* get_birthday_list with the last day of the horizon left out
get_birthday_list_exclusive(table, user_id, t) ==
    {c \in table : /\ c.created_by = user_id
                   /\ today(t) <= c.birth_date
                   /\ c.birth_date < today(t) + horizon}

\* repository get_birthday_list: birth_date BETWEEN today AND today + horizon
get_birthday_list(table, user_id, t) ==
    {c \in table : /\ c.created_by = user_id
                   /\ today(t) <= c.birth_date
                   /\ c.birth_date <= today(t) + horizon}

(***************************************************************************)
(* The endpoints of routers/contact.py, one request at a time.             *)
(***************************************************************************)
list_contacts(token, limit, offset) ==
    LET cur == get_current_user(users, token, now) IN
    /\ IF cur.status # 200
       THEN resp' = CResp("list_contacts", cur.status, cur.detail, token, 0,
                          NoBody, <<offset>>, {})
       ELSE \E r \in get_contacts(contacts, limit, offset, cur.user.id) :
               resp' = CResp("list_contacts", 200, "", token, 0, NoBody,
                             <<offset>>, r)
    /\ UNCHANGED ctVars
    /\ UNCHANGED <<users, now, ticks, issued, sent, hist, rlVars, cVars, dbVars, wVars, suVars>>

birthday_list(token) ==
    LET cur == get_current_user(users, token, now) IN
    /\ resp' = IF cur.status # 200
               THEN CResp("birthday_list", cur.status, cur.detail, token, 0,
                          NoBody, None, {})
               ELSE CResp("birthday_list", 200, "", token, 0, NoBody, None,
                          get_birthday_list(contacts, cur.user.id, now))
    /\ UNCHANGED ctVars
    /\ UNCHANGED <<users, now, ticks, issued, sent, hist, rlVars, cVars, dbVars, wVars, suVars>>

\* the call repo_contact.get_contact(id_, db) lacks the user_id argument and
\* raises TypeError; the token is not decoded
get_contact(token, id_) ==
    /\ resp' = CResp("get_contact", 500, "TypeError", token, id_, NoBody, None, {})
    /\ UNCHANGED ctVars
    /\ UNCHANGED <<users, now, ticks, issued, sent, hist, rlVars, cVars, dbVars, wVars, suVars>>

add_contact(token, body) ==
    LET cur == get_current_user(users, token, now) IN
    /\ IF cur.status # 200
       THEN /\ resp' = CResp("add_contact", cur.status, cur.detail, token, 0,
                             body, None, {})
            /\ UNCHANGED ctVars
       ELSE LET r == create_contact(contacts, contact_seq, body, cur.user.id) IN
            /\ contact_seq < MaxContacts
            /\ contacts' = r.table
            /\ contact_seq' = r.seq
            /\ resp' = CResp("add_contact", 201, "", token, r.contact.id, body,
                             None, {r.contact})
    /\ UNCHANGED <<users, now, ticks, issued, sent, hist, rlVars, cVars, dbVars, wVars, suVars>>

edit_contact(token, id_, body) ==
    LET cur == get_current_user(users, token, now) IN
    /\ IF cur.status # 200
       THEN /\ resp' = CResp("edit_contact", cur.status, cur.detail, token, id_,
                             body, None, {})
            /\ UNCHANGED ctVars
       ELSE LET r == repo_edit_contact(contacts, id_, body, cur.user.id, now) IN
            /\ contacts' = r.table
            /\ resp' = CResp("edit_contact", r.status, r.detail, token, id_,
                             body, None,
                             IF r.status = 202 THEN {r.contact} ELSE {})
            /\ UNCHANGED contact_seq
    /\ UNCHANGED <<users, now, ticks, issued, sent, hist, rlVars, cVars, dbVars, wVars, suVars>>

delete_contact(token, id_) ==
    LET cur == get_current_user(users, token, now) IN
    /\ IF cur.status # 200
       THEN /\ resp' = CResp("delete_contact", cur.status, cur.detail, token,
                             id_, NoBody, None, {})
            /\ UNCHANGED ctVars
       ELSE LET r == repo_delete_contact(contacts, id_, cur.user.id) IN
            /\ contacts' = r.table
            /\ resp' = CResp("delete_contact", r.status, r.detail, token, id_,
                             NoBody, None,
                             IF r.status = 200 THEN {r.contact} ELSE {})
            /\ UNCHANGED contact_seq
    /\ UNCHANGED <<users, now, ticks, issued, sent, hist, rlVars, cVars, dbVars, wVars, suVars>>

search_name(token, query) ==
    LET cur == get_current_user(users, token, now) IN
    /\ resp' = IF query = None
               THEN CResp("search_name", 200, "", token, 0, NoBody, query, {})
               ELSE IF cur.status # 200
               THEN CResp("search_name", cur.status, cur.detail, token, 0,
                          NoBody, query, {})
               ELSE CResp("search_name", 200, "", token, 0, NoBody, query,
                          get_contact_by_name(contacts, query, cur.user.id))
    /\ UNCHANGED ctVars
    /\ UNCHANGED <<users, now, ticks, issued, sent, hist, rlVars, cVars, dbVars, wVars, suVars>>

search_mail(token, query) ==
    LET cur == get_current_user(users, token, now) IN
    /\ resp' = IF query = None
               THEN CResp("search_mail", 200, "", token, 0, NoBody, query, {})
               ELSE IF cur.status # 200
               THEN CResp("search_mail", cur.status, cur.detail, token, 0,
                          NoBody, query, {})
               ELSE CResp("search_mail", 200, "", token, 0, NoBody, query,
                          get_contact_by_mail(contacts, query, cur.user.id))
    /\ UNCHANGED ctVars
    /\ UNCHANGED <<users, now, ticks, issued, sent, hist, rlVars, cVars, dbVars, wVars, suVars>>

InitContacts ==
    /\ contacts = {}
    /\ contact_seq = 0

(***************************************************************************)
(* Database sessions: conf/db.py.  A request obtains its session from      *)
(* get_db, its handler runs, and the generator of                          *)
(* DatabaseSessionManager.session is resumed with the handler's outcome.   *)
(***************************************************************************)
Requests == {"r1", "r2"}
NoRequest == [pc |-> "idle", session |-> 0]

\* session = self._session_maker(); yield session
get_db(r) ==
    /\ req[r].pc = "idle"
    /\ Len(session_log) < MaxSessions
    /\ session_log' = Append(session_log, <<>>)
    /\ req' = [req EXCEPT ![r] = [pc |-> "handler",
                                  session |-> Len(session_log) + 1]]
    /\ UNCHANGED <<rlVars, cVars, authVars, ctVars, wVars, suVars>>

\* a repository function of the handler calls db.commit()
db_commit(r) ==
    /\ req[r].pc = "handler"
    /\ Len(session_log[req[r].session]) < MaxCommits
    /\ session_log' = [session_log EXCEPT ![req[r].session] = Append(@, "commit")]
    /\ UNCHANGED <<req, rlVars, cVars, authVars, ctVars, wVars, suVars>>

\* the handler returns: the generator resumes after the yield
handler_return(r) ==
    /\ req[r].pc = "handler"
    /\ req' = [req EXCEPT ![r].pc = "finally"]
    /\ UNCHANGED <<session_log, rlVars, cVars, authVars, ctVars, wVars, suVars>>

\* the handler raises: the exception is thrown into the generator at the yield
handler_raise(r) ==
    /\ req[r].pc = "handler"
    /\ req' = [req EXCEPT ![r].pc = "except"]
    /\ UNCHANGED <<session_log, rlVars, cVars, authVars, ctVars, wVars, suVars>>

\* except Exception: logging.error(...); await session.rollback()
session_except(r) ==
    /\ req[r].pc = "except"
    /\ session_log' = [session_log EXCEPT ![req[r].session] = Append(@, "rollback")]
    /\ req' = [req EXCEPT ![r].pc = "finally"]
    /\ UNCHANGED <<rlVars, cVars, authVars, ctVars, wVars, suVars>>

\* finally: await session.close()
session_finally(r) ==
    /\ req[r].pc = "finally"
    /\ session_log' = [session_log EXCEPT ![req[r].session] = Append(@, "close")]
    /\ req' = [req EXCEPT ![r] = NoRequest]
    /\ UNCHANGED <<rlVars, cVars, authVars, ctVars, wVars, suVars>>

InitDb ==
    /\ session_log = <<>>
    /\ req = [r \in Requests |-> NoRequest]

(***************************************************************************)
(* Signup requests served concurrently: service create_user gives up       *)
(* control at each await, and another request's coroutine may run there.   *)
(***************************************************************************)
NoSignup == [pc |-> "idle", email |-> "", passwd |-> "", user |-> NoUser,
             status |-> 0]

\* user = await repo_user.find_user(data["email"], db)
signup_find_user(r, email, passwd) ==
    LET user == find_user(users, email) IN
    /\ signups[r].pc = "idle"
    /\ signups' = [signups EXCEPT ![r] =
          IF user.id = -1
          THEN [NoSignup EXCEPT !.email = email, !.status = 500]
          ELSE IF user # NoUser
          THEN [NoSignup EXCEPT !.email = email, !.status = 409]
          ELSE [pc |-> "found", email |-> email, passwd |-> passwd,
                user |-> user, status |-> 0]]
    /\ UNCHANGED <<rlVars, cVars, authVars, ctVars, dbVars, wVars>>

\* "if not user:" was true: hash_pwd, then repository create_user, which
\* inserts and commits
signup_create_user(r, salt) ==
    LET h == hash_pwd(signups[r].passwd, salt)
        created == repo_create_user(users,
                       [email |-> signups[r].email, passwd |-> h.passwd,
                        salt |-> h.salt]) IN
    /\ signups[r].pc = "found"
    /\ Len(users) < MaxUsers
    /\ users' = created
    /\ signups' = [signups EXCEPT ![r].pc = "created",
                                  ![r].user = created[Len(created)]]
    /\ UNCHANGED <<now, ticks, issued, sent, resp, hist,
                   rlVars, cVars, ctVars, dbVars, wVars>>

\* update_otp, send_email, return user
signup_update_otp(r, draw, smtp_ok) ==
    LET upd == update_otp(users, signups[r].user.id, None, draw) IN
    /\ signups[r].pc = "created"
    /\ users' = upd.table
    /\ sent' = send_email(sent, "Your OTP for registration", upd.otp,
                          signups[r].user.email, smtp_ok)
    /\ signups' = [signups EXCEPT ![r] =
                      [NoSignup EXCEPT !.email = signups[r].email,
                                       !.user = upd.table[signups[r].user.id],
                                       !.status = 201]]
    /\ UNCHANGED <<now, ticks, issued, resp, hist,
                   rlVars, cVars, ctVars, dbVars, wVars>>

InitSignups == signups = [r \in Requests |-> NoSignup]

(***************************************************************************)
(* Rate limiter, the calls of one client over time, with the times of the  *)
(* allowed calls kept.                                                     *)
(***************************************************************************)
\* one is_allowed call of the client at the current time
is_allowed_call ==
    LET r == is_allowed(wRecord, wTime) IN
    /\ wRecord' = r.rec
    /\ wAllowedAt' = IF r.ok THEN Append(wAllowedAt, wTime) ELSE wAllowedAt
    /\ UNCHANGED <<wTime, rlVars, cVars, authVars, ctVars, dbVars, suVars>>

\* time.time() moves on between two calls
time_passes(d) ==
    /\ wTime + d <= MaxClock
    /\ wTime' = wTime + d
    /\ UNCHANGED <<wRecord, wAllowedAt, rlVars, cVars, authVars, ctVars, dbVars, suVars>>

InitWindow ==
    /\ wRecord = None
    /\ wTime = 0
    /\ wAllowedAt = <<>>

(***************************************************************************)
(* Specifications.                                                         *)
(***************************************************************************)
Init ==
    InitRL /\ InitConc /\ InitAuth /\ InitContacts /\ InitDb /\ InitWindow /\ InitSignups

\* the auth service, every endpoint, with the clock standing still and the
\* mail server answering
Next ==
    \/ \E e \in Emails, p \in Passwords, s \in Salts, r \in OtpDraws :
          signup(e, p, s, r, TRUE)
    \/ \E e \in Emails, p \in Passwords, r \in OtpDraws :
          login_for_access_token(e, p, r)
    \/ \E tok \in issued \cup ForgedTokens : user_path(tok)
    \/ \E tok \in issued \cup ForgedTokens : refresh_token(tok)
    \/ \E e \in Emails, o \in OtpInputs : activate(e, o)

Spec == Init /\ [][Next]_vars

\* the auth service with time passing, for one account
NextTokens ==
    \/ \E e \in TokEmails, p \in TokPasswords, s \in Salts, r \in TokOtpDraws :
          signup(e, p, s, r, TRUE)
    \/ \E e \in TokEmails, p \in TokPasswords, r \in TokOtpDraws :
          login_for_access_token(e, p, r)
    \/ \E tok \in issued \cup ForgedTokens \cup ForeignTokens : user_path(tok)
    \/ \E tok \in issued \cup ForgedTokens \cup ForeignTokens : refresh_token(tok)
    \/ \E e \in TokEmails, o \in TokOtpDraws : activate(e, o)
    \/ \E d \in TickSteps : Tick(d)

SpecTokens == Init /\ [][NextTokens]_vars

\* the rate limiter, one call at a time
NextRL ==
    \/ \E c \in Clients : limit_allowed(c)
    \/ \E d \in ClockSteps : AdvanceClock(d)

SpecRL == Init /\ [][NextRL]_vars

\* the rate limiter on worker threads
NextConc ==
    \/ \E t \in Threads, c \in Clients : T_Call(t, c)
    \/ \E t \in Threads : T_L61(t)
    \/ \E t \in Threads : T_L62(t)
    \/ \E t \in Threads : T_Store(t)
    \/ \E t \in Threads : T_L68(t)
    \/ \E t \in Threads : T_L75a(t)
    \/ \E t \in Threads : T_L75b(t)
    \/ \E t \in Threads : T_L75c(t)
    \/ \E d \in CSteps : CAdvance(d)

SpecConc == Init /\ [][NextConc]_vars

\* contacts of two Active users, each holding the access token of a login at
\* minute 1430: the state after both signed up, activated and logged in
SeedUsers ==
    LET one == create_user(<<>>, <<>>, "a@x.io", "pw1", "salt1", OTP_MIN, TRUE)
        two == create_user(one.table, one.sent, "b@x.io", "pw1", "salt1", OTP_MIN,
                           TRUE)
        act == activate_user(two.table, "a@x.io", OTP_MIN).table IN
    [table |-> activate_user(act, "b@x.io", OTP_MIN).table, sent |-> two.sent]

InitSeeded ==
    LET a == generate_token(SeedUsers.table, "a@x.io", "pw1", OTP_MIN, 1430)
        b == generate_token(a.table, "b@x.io", "pw1", OTP_MIN, 1430) IN
    /\ InitRL /\ InitConc /\ InitContacts /\ InitDb /\ InitWindow /\ InitSignups
    /\ users = b.table
    /\ now = 1430
    /\ ticks = 0
    /\ issued = {a.access_token, b.access_token}
    /\ sent = SeedUsers.sent
    /\ resp = Resp("login", b.status, b.detail, "b@x.io", 0, NoToken, NoUser,
                   b.access_token, b.refresh_token)
    /\ hist = [e \in Emails |-> [used |-> {OTP_MIN}, stale |-> {OTP_MIN},
                                 draw |-> OTP_MIN]]

NextContacts ==
    \/ \E tok \in issued, l \in Limits, o \in Offsets : list_contacts(tok, l, o)
    \/ \E tok \in issued : birthday_list(tok)
    \/ \E tok \in issued, i \in ContactIds : get_contact(tok, i)
    \/ \E tok \in issued, b \in ContactBodies : add_contact(tok, b)
    \/ \E tok \in issued, i \in ContactIds, b \in EditBodies : edit_contact(tok, i, b)
    \/ \E tok \in issued, i \in ContactIds : delete_contact(tok, i)
    \/ \E tok \in issued, q \in NameQueries : search_name(tok, q)
    \/ \E tok \in issued, q \in MailQueries : search_mail(tok, q)
    \/ Tick(16)

SpecContacts == InitSeeded /\ [][NextContacts]_vars

\* request-scoped sessions
NextDb ==
    \/ \E r \in Requests : get_db(r)
    \/ \E r \in Requests : db_commit(r)
    \/ \E r \in Requests : handler_return(r)
    \/ \E r \in Requests : handler_raise(r)
    \/ \E r \in Requests : session_except(r)
    \/ \E r \in Requests : session_finally(r)

SpecDb == Init /\ [][NextDb]_vars

\* one client calling the limiter again and again while time passes
NextWindow ==
    \/ is_allowed_call
    \/ \E d \in ClockSteps : time_passes(d)

SpecWindow == Init /\ [][NextWindow]_vars

\* every endpoint of both routers, from the empty database
NextAll ==
    \/ \E e \in Emails, p \in TokPasswords, s \in Salts, r \in TokOtpDraws :
          signup(e, p, s, r, TRUE)
    \/ \E e \in Emails, p \in TokPasswords, r \in TokOtpDraws :
          login_for_access_token(e, p, r)
    \/ \E tok \in issued : user_path(tok)
    \/ \E tok \in issued : refresh_token(tok)
    \/ \E e \in Emails, o \in TokOtpDraws \cup {0} : activate(e, o)
    \/ \E tok \in issued, l \in Limits : list_contacts(tok, l, 0)
    \/ \E tok \in issued : birthday_list(tok)
    \/ \E tok \in issued : get_contact(tok, 1)
    \/ \E tok \in issued, b \in ContactBodies : add_contact(tok, b)
    \/ \E tok \in issued, b \in EditBodies : edit_contact(tok, 1, b)
    \/ \E tok \in issued : delete_contact(tok, 1)
    \/ \E tok \in issued, q \in NameQueries \ {None} : search_name(tok, q)
    \/ \E tok \in issued, q \in MailQueries \ {None} : search_mail(tok, q)

SpecAll == Init /\ [][NextAll]_vars

\* signup requests in flight together
NextSignups ==
    \/ \E r \in Requests, e \in Emails, p \in TokPasswords :
          signup_find_user(r, e, p)
    \/ \E r \in Requests, s \in Salts : signup_create_user(r, s)
    \/ \E r \in Requests, d \in TokOtpDraws, ok \in BOOLEAN :
          signup_update_otp(r, d, ok)

SpecSignups == Init /\ [][NextSignups]_vars

\* requests of rate-limited clients: logins, and contact requests, which any
\* of the clients may send
NextGate ==
    \/ \E c \in Clients, e \in TokEmails, p \in TokPasswords, r \in TokOtpDraws :
          login_request(c, e, p, r)
    \/ \E tok \in issued, b \in ContactBodies : add_contact(tok, b)
    \/ \E d \in GateSteps : AdvanceClock(d)

SpecGate == InitSeeded /\ [][NextGate]_vars

\* the accounts from signup to token use: mail delivery failing or not,
\* logins with a right or a wrong password
NextAccounts ==
    \/ \E e \in Emails, p \in TokPasswords, s \in Salts, r \in TokOtpDraws,
          ok \in BOOLEAN :
          signup(e, p, s, r, ok)
    \/ \E e \in Emails, p \in Passwords, r \in OtpDraws :
          login_for_access_token(e, p, r)
    \/ \E tok \in issued : user_path(tok)
    \/ \E tok \in issued \cup ForeignTokens : refresh_token(tok)
    \/ \E e \in Emails, o \in TokOtpDraws \cup {0} : activate(e, o)

SpecAccounts == Init /\ [][NextAccounts]_vars

(***************************************************************************)
(* Properties.                                                             *)
(***************************************************************************)
\* the rows of the users table holding an email, read off the table itself
RowsOf(table, e) == {i \in 1..Len(table) : table[i].email = e}
IsOtp(v) == v \in OTP_MIN..OTP_MAX
Unexpired(tok) == now <= tok.exp

\* C1: one client, max_requests=3, window_time=120, calls at non-decreasing
\* times: once 3 calls have been allowed since the window start, a call at T
\* with T - start <= 120 is denied (429); a call at T with T - start > 120 is
\* allowed and leaves the record (start=T, count=1).
C1_FixedWindow ==
    [][\A c \in Clients :
         (rlResp'.client = c /\ limit_allowed(c) /\ requests[c] # None) =>
            /\ (allowedInWindow[c] >= max_requests
                  /\ clock - requests[c][1] <= window_time)
               => (~rlResp'.allowed /\ rlResp'.status = 429)
            /\ (clock - requests[c][1] > window_time)
               => (rlResp'.allowed /\ requests'[c] = <<clock, 1>>)]_vars

\* a fourth call denied inside a window that began after the first one ran out
C1_Witness ==
    /\ rlResp.status = 429
    /\ allowedInWindow[rlResp.client] = max_requests
    /\ requests[rlResp.client][1] > window_time
    /\ rlResp.time - requests[rlResp.client][1] <= window_time

\* C2: concurrent is_allowed calls for one client are serialized: the stored
\* count equals the number of calls allowed since the window start, and never
\* more than max_requests calls are allowed in one window.
C2_NoLostUpdate ==
    \A c \in Clients :
        (\A t \in Threads : th[t].pc = "idle") =>
            /\ cRequests[c] # 0 => cHeap[cRequests[c]][2] = cAllowed[c]
            /\ cAllowed[c] <= max_requests

\* C3 as stated: every issued access token is accepted by get_current_user and
\* rejected with 401 by refresh_user_token, every issued refresh token is
\* accepted by refresh_user_token and rejected with 401 by get_current_user.
C3_ScopeAlwaysAccepted ==
    \A tok \in issued :
        /\ tok.scope = "access_token" =>
              /\ get_current_user(users, tok, now).status = 200
              /\ refresh_user_token(users, tok, now).status = 401
        /\ tok.scope = "refresh_token" =>
              /\ refresh_user_token(users, tok, now).status = 200
              /\ get_current_user(users, tok, now).status = 401

\* C3 amended: an issued access token is accepted by get_current_user while it
\* is unexpired and rejected with 401 by refresh_user_token always; an issued
\* refresh token is accepted by refresh_user_token while it is unexpired and
\* rejected with 401 by get_current_user always; for the pairs of login and of
\* refresh alike.
C3_ScopeMatches ==
    \A tok \in issued :
        /\ tok.scope \in {"access_token", "refresh_token"}
        /\ tok.scope = "access_token" =>
              /\ Unexpired(tok) =>
                    /\ get_current_user(users, tok, now).status = 200
                    /\ get_current_user(users, tok, now).user.email = tok.sub
              /\ refresh_user_token(users, tok, now).status = 401
        /\ tok.scope = "refresh_token" =>
              /\ Unexpired(tok) =>
                    /\ refresh_user_token(users, tok, now).status = 200
                    /\ refresh_user_token(users, tok, now).access_token.sub = tok.sub
              /\ get_current_user(users, tok, now).status = 401

\* an unexpired access token of a refresh-issued pair was just refused by the
\* refresh endpoint for its scope
C3_Witness ==
    /\ resp.op = "refresh"
    /\ resp.token \in issued
    /\ resp.token.scope = "access_token"
    /\ resp.token.exp - resp.token.iat = DEFAULT_ACCESS_MINUTES
    /\ Unexpired(resp.token)
    /\ resp.status = 401
    /\ resp.detail = "Invalid scope for token"

\* C4: generate_token fails with 401 whenever the email is unknown, the
\* password does not verify, or the account is not Active, and returns no
\* token in these cases.
C4_LoginFailsWith401 ==
    [][\A e \in Emails, p \in Passwords, r \in OtpDraws :
         (/\ resp'.op = "login" /\ resp'.email = e
          /\ login_for_access_token(e, p, r)
          /\ \/ RowsOf(users, e) = {}
             \/ \E i \in RowsOf(users, e) :
                   \/ users[i].passwd # hashpw(p, users[i].salt)
                   \/ ~users[i].is_active)
         => /\ resp'.status = 401
            /\ resp'.access_token = NoToken
            /\ resp'.refresh_token = NoToken]_vars

\* C5: generate_token for an Active user with the correct password returns an
\* access and a refresh token whose subject is the user's email, and replaces
\* the persisted OTP by the value freshly drawn from 100000..999999.
C5_LoginIssuesAndResetsOtp ==
    [][\A e \in Emails, p \in Passwords, r \in OtpDraws :
         (/\ resp'.op = "login" /\ resp'.email = e
          /\ login_for_access_token(e, p, r)
          /\ \E i \in RowsOf(users, e) :
                /\ users[i].passwd = hashpw(p, users[i].salt)
                /\ users[i].is_active)
         => /\ resp'.status = 201
            /\ resp'.access_token.sub = e
            /\ resp'.access_token.scope = "access_token"
            /\ resp'.refresh_token.sub = e
            /\ resp'.refresh_token.scope = "refresh_token"
            /\ IsOtp(r)
            /\ \A i \in RowsOf(users, e) :
                  /\ users'[i].otp = <<r>>
                  /\ users'[i] = [users[i] EXCEPT !.otp = <<r>>]
            /\ \A i \in 1..Len(users) : users[i].email # e => users'[i] = users[i]
            /\ Len(users') = Len(users)]_vars

\* a login succeeded and the persisted OTP is the login's draw, which differs
\* from the OTP the account was activated with
C5_Witness ==
    /\ resp.op = "login"
    /\ resp.status = 201
    /\ resp.access_token.sub = resp.email
    /\ \E i \in RowsOf(users, resp.email) :
          /\ users[i].otp = <<hist[resp.email].draw>>
          /\ users[i].otp[1] \notin hist[resp.email].used

\* C6: activate_user on an existing user succeeds (is_active becomes True and
\* the user is returned) iff the OTP equals the persisted OTP; when it does
\* not succeed, is_active and OTP are unchanged.
C6_ActivateIffOtp ==
    [][\A e \in Emails, o \in OtpInputs :
         (resp'.op = "activate" /\ resp'.email = e /\ resp'.otp = o
            /\ activate(e, o) /\ RowsOf(users, e) # {}) =>
            \A i \in RowsOf(users, e) :
               /\ (resp'.status = 200) <=> (users[i].otp = <<o>>)
               /\ resp'.status = 200 =>
                     /\ users'[i] = [users[i] EXCEPT !.is_active = TRUE]
                     /\ resp'.user = users'[i]
               /\ resp'.status # 200 => users' = users]_vars

\* an activation with the persisted OTP just succeeded
C6_Witness ==
    /\ resp.op = "activate"
    /\ resp.status = 200
    /\ resp.user.is_active
    /\ resp.user.otp = <<resp.otp>>
    /\ \E i \in RowsOf(users, resp.email) : users[i] = resp.user

\* C7: activate_user reports an unknown email as a NotFound error and an OTP
\* mismatch on an existing user as Unauthorized "Wrong activation password":
\* two distinct errors.
C7_DistinctErrors ==
    resp.op = "activate" =>
        /\ RowsOf(users, resp.email) = {} =>
              /\ resp.status \in {401, 404}
              /\ resp.detail = "User is not found"
        /\ (\E i \in RowsOf(users, resp.email) : users[i].otp # <<resp.otp>>) =>
              /\ resp.status = 401
              /\ resp.detail = "Wrong activation password"

\* C8 as stated: once a user was activated with OTP v and has then logged in,
\* every later activate_user call with v fails.
C8_OldOtpAlwaysFails ==
    [][\A e \in Emails, o \in OtpInputs :
         (resp'.op = "activate" /\ resp'.email = e /\ resp'.otp = o
            /\ activate(e, o) /\ o \in hist[e].stale) => resp'.status # 200]_vars

\* C8 amended: once a user was activated with OTP v and has then logged in,
\* a later activate_user call with v fails unless the most recent login's
\* random draw returned v again.
C8_OldOtpFailsUnlessRedrawn ==
    [][\A e \in Emails, o \in OtpInputs :
         (resp'.op = "activate" /\ resp'.email = e /\ resp'.otp = o
            /\ activate(e, o) /\ o \in hist[e].stale /\ hist[e].draw # o)
            => (resp'.status = 401 /\ users' = users)]_vars

\* an activation with the OTP of an earlier activation was refused after a login
C8_Witness ==
    /\ resp.op = "activate"
    /\ resp.otp \in hist[resp.email].stale
    /\ hist[resp.email].draw # resp.otp
    /\ resp.status = 401

\* C9: create_user for an email that has a user record fails with 409
\* whatever the password, creates no record, sends no email and leaves the
\* existing record unchanged.
C9_SignupConflict ==
    [][\A e \in Emails, p \in Passwords, s \in Salts, r \in OtpDraws :
         (resp'.op = "signup" /\ resp'.email = e
            /\ signup(e, p, s, r, TRUE) /\ RowsOf(users, e) # {}) =>
            /\ resp'.status = 409
            /\ users' = users
            /\ sent' = sent]_vars

\* a signup with another password than the stored one was refused with 409
C9_Witness ==
    /\ resp.op = "signup"
    /\ resp.status = 409
    /\ \E i \in RowsOf(users, resp.email), p \in Passwords :
          users[i].passwd # hashpw(p, users[i].salt)
    /\ Len(sent) = Len(users)

\* C10: create_user for an email without a record ends with exactly one
\* record for it, Inactive, with a persisted OTP in 100000..999999, and
\* send_email has been called exactly once, with that OTP, to that email.
C10_SignupCreates ==
    [][\A e \in Emails, p \in Passwords, s \in Salts, r \in OtpDraws :
         (resp'.op = "signup" /\ resp'.email = e
            /\ signup(e, p, s, r, TRUE) /\ RowsOf(users, e) = {}) =>
            /\ Cardinality(RowsOf(users', e)) = 1
            /\ \A i \in RowsOf(users', e) :
                  /\ ~users'[i].is_active
                  /\ users'[i].otp # None
                  /\ IsOtp(users'[i].otp[1])
                  /\ Len(sent') = Len(sent) + 1
                  /\ sent'[Len(sent')].to = e
                  /\ sent'[Len(sent')].otp = users'[i].otp[1]
                  /\ resp'.user = users'[i]
            /\ SubSeq(sent', 1, Len(sent)) = sent
            /\ SubSeq(users', 1, Len(users)) = users
            /\ resp'.status = 201]_vars

\* the second account was just created: two Inactive rows, two mails
C10_Witness ==
    /\ resp.op = "signup"
    /\ resp.status = 201
    /\ Len(users) = 2
    /\ Len(sent) = 2
    /\ ~resp.user.is_active
    /\ sent[2].to = resp.email
    /\ <<sent[2].otp>> = resp.user.otp

\* C11: refresh_user_token fails with 401 when the token has a bad signature,
\* is expired, is access-scoped, names a subject without a user record or
\* names an Inactive user; otherwise it returns a new access+refresh pair
\* whose subject is the presented token's subject.
C11_RefreshOutcome ==
    [][(resp'.op = "refresh" /\ refresh_token(resp'.token)) =>
         LET tok == resp'.token
             rejected ==
                 \/ tok.key # SECRET_KEY
                 \/ now > tok.exp
                 \/ tok.scope # "refresh_token"
                 \/ RowsOf(users, tok.sub) = {}
                 \/ \E i \in RowsOf(users, tok.sub) : ~users[i].is_active
         IN IF rejected
            THEN /\ resp'.status = 401
                 /\ resp'.access_token = NoToken
                 /\ resp'.refresh_token = NoToken
                 /\ issued' = issued
            ELSE /\ resp'.status = 200
                 /\ resp'.access_token.sub = tok.sub
                 /\ resp'.access_token.scope = "access_token"
                 /\ resp'.refresh_token.sub = tok.sub
                 /\ resp'.refresh_token.scope = "refresh_token"
                 /\ resp'.access_token.iat = now
                 /\ resp'.refresh_token.iat = now]_vars

\* a well-signed, unexpired refresh token naming an Inactive user was refused
C11_Witness ==
    /\ resp.op = "refresh"
    /\ resp.status = 401
    /\ resp.detail = "Invalid token"
    /\ resp.token.key = SECRET_KEY
    /\ resp.token.scope = "refresh_token"
    /\ Unexpired(resp.token)
    /\ \E i \in RowsOf(users, resp.token.sub) : ~users[i].is_active

\* C12: a successful refresh does not invalidate the presented refresh token:
\* after it the same token is accepted again for as long as it is unexpired
\* and its subject is Active, and refused once it has expired.
C12_RefreshTokenReusable ==
    (resp.op = "refresh" /\ resp.status = 200) =>
        LET tok == resp.token
            again == refresh_user_token(users, tok, now) IN
        /\ (Unexpired(tok) /\ \E i \in RowsOf(users, tok.sub) : users[i].is_active)
              => /\ again.status = 200
                 /\ again.access_token.sub = tok.sub
        /\ ~Unexpired(tok) => again.status = 401

\* a refresh token was accepted at a time after its first use: no login has
\* happened, so the pair held from an earlier minute was issued for it
C12_Witness ==
    /\ resp.op = "refresh"
    /\ resp.status = 200
    /\ resp.token \in ForeignTokens
    /\ resp.access_token.iat > 0
    /\ \A t \in issued : t.exp - t.iat \in {DEFAULT_ACCESS_MINUTES, DEFAULT_REFRESH_MINUTES}
    /\ \E t \in issued : /\ t.scope = "refresh_token"
                         /\ t.sub = resp.token.sub
                         /\ t.iat = 0

\* C13: every access token issued, at login and at refresh, expires 30
\* minutes after its issue, and every refresh token 1000 minutes after it.
C13_UniformExpiry ==
    \A tok \in issued :
        /\ tok.scope = "access_token" => tok.exp = tok.iat + 30
        /\ tok.scope = "refresh_token" => tok.exp = tok.iat + 1000

\* the ids of the users rows a token's subject names, read off the table
OwnerIds(tok) == {users[i].id : i \in RowsOf(users, tok.sub)}
\* a well-signed, unexpired access token of a registered user
ValidAccess(tok) ==
    /\ tok.key = SECRET_KEY
    /\ tok.scope = "access_token"
    /\ Unexpired(tok)
    /\ RowsOf(users, tok.sub) # {}

\* C14: a user's state only moves Unregistered -> Inactive (signup) ->
\* Active (activation): no step of any endpoint removes a row, changes its
\* email, turns an Active row Inactive, or makes a row Active other than an
\* activation of that email with the persisted OTP; a new row comes from a
\* signup of its email and is Inactive.
C14_UserStateMonotone ==
    [][/\ Len(users') >= Len(users)
       /\ \A i \in 1..Len(users) :
             /\ users'[i].email = users[i].email
             /\ users'[i].id = users[i].id
             /\ users[i].is_active => users'[i].is_active
             /\ (~users[i].is_active /\ users'[i].is_active) =>
                   /\ resp'.op = "activate"
                   /\ resp'.status = 200
                   /\ resp'.email = users[i].email
                   /\ users[i].otp = <<resp'.otp>>
       /\ \A i \in (Len(users) + 1)..Len(users') :
             /\ ~users'[i].is_active
             /\ resp'.op = "signup"
             /\ resp'.email = users'[i].email
             /\ RowsOf(users, users'[i].email) = {}]_vars

\* an Active user deleted a contact while another user is still Inactive
C14_Witness ==
    /\ resp.op = "delete_contact"
    /\ resp.status = 200
    /\ \E i \in 1..Len(users) : users[i].is_active /\ users[i].id \in OwnerIds(resp.token)
    /\ \E i \in 1..Len(users) : ~users[i].is_active

\* C15: get_contacts, get_contact_by_name, get_contact_by_mail and
\* get_birthday_list called for a user return only contacts whose created_by
\* is that user's id.
C15_OnlyOwnContacts ==
    (/\ resp.op \in {"list_contacts", "search_name", "search_mail", "birthday_list"}
     /\ resp.status = 200) =>
        \A c \in resp.result : c.created_by \in OwnerIds(resp.token)

\* a mail search returned the caller's match and left out another user's
\* contact that matches the same query
C15_Witness ==
    /\ resp.op = "search_mail"
    /\ resp.status = 200
    /\ resp.result # {}
    /\ \E c \in contacts : /\ c \notin resp.result
                           /\ like(c.email, contains(resp.query))

\* C16: GET /contact/{id} returns the contact when it exists and is owned by
\* the caller and the not-found sentinel otherwise, never another user's
\* contact and never an internal error.
C16_GetContactOwnedOrSentinel ==
    [][(resp'.op = "get_contact" /\ get_contact(resp'.token, resp'.id)) =>
         LET owned == {c \in contacts : /\ c.id = resp'.id
                                        /\ c.created_by \in OwnerIds(resp'.token)} IN
         /\ resp'.status # 500
         /\ resp'.result = owned]_vars

\* C17: edit_contact on a contact the caller owns overwrites exactly the
\* non-null fields among first_name, last_name, email, birth_date, sets
\* modified_at to the current time, and leaves id, created_by, created_at,
\* the null-supplied fields and every other contact unchanged.
C17_EditOverwritesNonNull ==
    [][(/\ resp'.op = "edit_contact"
        /\ ValidAccess(resp'.token)
        /\ \E c \in contacts : /\ c.id = resp'.id
                               /\ c.created_by \in OwnerIds(resp'.token)
        /\ edit_contact(resp'.token, resp'.id, resp'.body)) =>
         LET b == resp'.body
             old == CHOOSE c \in contacts : c.id = resp'.id IN
         /\ resp'.status = 202
         /\ \E new \in contacts' :
               /\ new.id = old.id
               /\ new.first_name = IF b.first_name # None THEN b.first_name[1]
                                   ELSE old.first_name
               /\ new.last_name = IF b.last_name # None THEN b.last_name[1]
                                  ELSE old.last_name
               /\ new.email = IF b.email # None THEN b.email[1] ELSE old.email
               /\ new.birth_date = IF b.birth_date # None THEN b.birth_date[1]
                                   ELSE old.birth_date
               /\ new.modified_at = now
               /\ new.created_by = old.created_by
               /\ new.created_at = old.created_at
               /\ contacts' \ {new} = contacts \ {old}]_vars

\* a contact was edited after its creation's day while another user's contact
\* is in the table: first_name and birth_date taken from the body, last_name
\* and email kept
C17_Witness ==
    /\ resp.op = "edit_contact"
    /\ resp.status = 202
    /\ \E c \in contacts : /\ c.id = resp.id
                           /\ c.first_name = <<"E", "v", "e">>
                           /\ c.last_name = <<"L", "e", "e">>
                           /\ c.modified_at = now
                           /\ c.modified_at # ImportTime
    /\ \E c \in contacts : c.created_by \notin OwnerIds(resp.token)

\* C18: create_contact stores created_by = the caller's id, under an id the
\* table never held, and no later step changes the created_by of a contact.
C18_CreatedByFixed ==
    [][/\ \A c \in contacts : \A d \in contacts' :
             d.id = c.id => d.created_by = c.created_by
       /\ \A d \in contacts' :
             (\A c \in contacts : c.id # d.id) =>
                 /\ d.id > contact_seq
                 /\ resp'.op = "add_contact"
                 /\ ValidAccess(resp'.token)
                 /\ d.created_by \in OwnerIds(resp'.token)]_vars

\* the second user's contact was edited, and a later delete of another
\* contact succeeded
C18_Witness ==
    /\ resp.op = "delete_contact"
    /\ resp.status = 200
    /\ \E c \in contacts : /\ c.created_by = 2
                           /\ c.modified_at # ImportTime
                           /\ c.id # resp.id

C20_SessionReleased ==
    /\ \A r1, r2 \in Requests :
          (r1 # r2 /\ req[r1].session # 0) => req[r1].session # req[r2].session
    /\ \A s \in 1..Len(session_log) :
          LET log == session_log[s]
              closes == {k \in 1..Len(log) : log[k] = "close"} IN
          /\ Cardinality(closes) <= 1
          /\ closes # {} =>
                /\ log[Len(log)] = "close"
                /\ Len(log) >= 2
                /\ log[Len(log) - 1] \in {"commit", "rollback"}

\* C23: is_allowed resets a client's window only when T - start is strictly
\* greater than window_time; a call at exactly T - start = window_time is
\* judged against the old window: denied if count = max_requests, otherwise
\* allowed and counted into the old window, whose start stays.
C23_ResetOnlyPastWindow ==
    [][\A c \in Clients :
         (rlResp'.client = c /\ requests[c] # None /\ limit_allowed(c)) =>
            LET start == requests[c][1]
                count == requests[c][2] IN
            /\ requests'[c][1] # start => clock - start > window_time
            /\ clock - start = window_time =>
                  IF count = max_requests
                  THEN /\ ~rlResp'.allowed
                       /\ rlResp'.status = 429
                       /\ requests'[c] = requests[c]
                  ELSE /\ rlResp'.allowed
                       /\ requests'[c] = <<start, count + 1>>]_vars

\* a call made exactly window_time after the window start was denied
C23_Witness ==
    \E c \in Clients :
       /\ rlResp.client = c
       /\ ~rlResp.allowed
       /\ requests[c] # None
       /\ rlResp.time - requests[c][1] = window_time

\* C26: with sequential calls every record of the limiter has
\* 1 <= count <= max_requests, and a client has a record iff it has made a
\* call: no record at the start, a call leaves one, only a client's own call
\* creates its record, and a record is never removed.
C26_RecordsWellFormed ==
    [][\A c \in Clients :
         /\ requests'[c] # None =>
               (1 <= requests'[c][2] /\ requests'[c][2] <= max_requests)
         /\ (rlResp'.client = c /\ limit_allowed(c)) => requests'[c] # None
         /\ (requests[c] = None /\ requests'[c] # None) =>
               (rlResp'.client = c /\ limit_allowed(c))
         /\ requests[c] # None => requests'[c] # None]_vars

\* one client has used up its window while the other has not called yet
C26_Witness ==
    \E c, d \in Clients :
       /\ requests[c] # None
       /\ requests[c][2] = max_requests
       /\ requests[d] = None
       /\ rlResp.client = c

\* C27: a denied is_allowed call changes no record of the limiter, so denied
\* calls never extend the window: whatever was denied before, a client's call
\* made more than window_time after its window start is allowed and opens a
\* new window.
C27_DeniedCallChangesNothing ==
    [][\A c \in Clients :
         (rlResp'.client = c /\ limit_allowed(c)) =>
            /\ ~rlResp'.allowed => requests' = requests
            /\ (requests[c] # None /\ clock - requests[c][1] > window_time) =>
                  /\ rlResp'.allowed
                  /\ requests'[c] = <<clock, 1>>]_vars

\* a client that was denied twice in its window has just been allowed again,
\* and the other client's record is there
C27_Witness ==
    \E c, d \in Clients :
       /\ c # d
       /\ rlResp.client = c
       /\ rlResp.allowed
       /\ requests[c] = <<rlResp.time, 1>>
       /\ deniedCalls[c] >= 2
       /\ requests[d] # None

\* C28: the limiter is a fixed-window counter, so a window's last calls and
\* the next window's first calls may lie close together: the calls allowed
\* for one client inside any closed interval of length window_time number at
\* most 2 * max_requests - 1.
C28_BurstBound ==
    \A a \in 0..wTime :
       Cardinality({i \in 1..Len(wAllowedAt) :
                       a <= wAllowedAt[i] /\ wAllowedAt[i] <= a + window_time})
          <= 2 * max_requests - 1

\* the bound is met: 2 * max_requests - 1 allowed calls less than window_time
\* apart, the last of them just made
C28_Witness ==
    \E i \in 1..Len(wAllowedAt) :
       /\ Len(wAllowedAt) - i + 1 = 2 * max_requests - 1
       /\ wAllowedAt[Len(wAllowedAt)] - wAllowedAt[i] < window_time
       /\ wAllowedAt[Len(wAllowedAt)] = wTime
       /\ wRecord = <<wTime, max_requests>>

\* C25: edit_contact and delete_contact called by an authenticated user with
\* the id of a contact that does not exist or that another user owns fail
\* (no 202, no 200, no contact returned) and leave the contacts table as it
\* was.
C25_MissingOrForeignUntouched ==
    [][(/\ resp'.op \in {"edit_contact", "delete_contact"}
        /\ ValidAccess(resp'.token)
        /\ \A c \in contacts : c.id = resp'.id =>
                                  c.created_by \notin OwnerIds(resp'.token)
        /\ \/ edit_contact(resp'.token, resp'.id, resp'.body)
           \/ delete_contact(resp'.token, resp'.id)) =>
         /\ contacts' = contacts
         /\ contact_seq' = contact_seq
         /\ resp'.status = 500
         /\ resp'.result = {}]_vars

\* a delete aimed at another user's contact failed and that contact is still
\* in the table
C25_Witness ==
    /\ resp.op = "delete_contact"
    /\ resp.status = 500
    /\ ValidAccess(resp.token)
    /\ \E c \in contacts : /\ c.id = resp.id
                           /\ c.created_by \notin OwnerIds(resp.token)

\* C21: a signup whose send_email hits an SMTP error still answers 201 with
\* the created user, and leaves the users table (the new row, Inactive, with
\* its OTP) exactly as the same signup with the mail delivered leaves it.
C21_MailFailureSwallowed ==
    [][\A e \in Emails, p \in TokPasswords, s \in Salts, r \in TokOtpDraws :
         (/\ resp'.op = "signup" /\ resp'.email = e
          /\ RowsOf(users, e) = {}
          /\ signup(e, p, s, r, FALSE)) =>
            LET delivered == create_user(users, sent, e, p, s, r, TRUE) IN
            /\ resp'.status = 201
            /\ resp'.user = delivered.user
            /\ resp'.user = users'[Len(users')]
            /\ users' = delivered.table
            /\ IsOtp(users'[Len(users')].otp[1])
            /\ Len(sent') = Len(sent) + 1
            /\ ~sent'[Len(sent')].delivered]_vars

\* a signup just answered 201 although its mail was not delivered; the row is
\* in the table with the OTP the mail carried
C21_Witness ==
    /\ resp.op = "signup"
    /\ resp.status = 201
    /\ Len(sent) > 0
    /\ ~sent[Len(sent)].delivered
    /\ sent[Len(sent)].to = resp.email
    /\ \E i \in RowsOf(users, resp.email) :
          /\ users[i] = resp.user
          /\ users[i].otp = <<sent[Len(sent)].otp>>
          /\ ~users[i].is_active

\* C29: a login for an unknown email, with a wrong password, or for an
\* Inactive account issues no token and leaves the users table, the issued
\* tokens and the mail log as they were; and after every step each Inactive
\* row still holds the OTP that its registration mail carried.
C29_FailedLoginChangesNothing ==
    [][/\ \A e \in Emails, p \in Passwords, r \in OtpDraws :
            (/\ resp'.op = "login" /\ resp'.email = e
             /\ \/ RowsOf(users, e) = {}
                \/ \E i \in RowsOf(users, e) :
                      \/ ~verify_password(p, users[i].passwd)
                      \/ ~users[i].is_active
             /\ login_for_access_token(e, p, r)) =>
               /\ resp'.status # 201
               /\ resp'.access_token = NoToken
               /\ resp'.refresh_token = NoToken
               /\ users' = users
               /\ issued' = issued
               /\ sent' = sent
       /\ \A i \in 1..Len(users') :
            ~users'[i].is_active =>
               \E k \in 1..Len(sent') :
                  /\ sent'[k].subject = "Your OTP for registration"
                  /\ sent'[k].to = users'[i].email
                  /\ users'[i].otp = <<sent'[k].otp>>]_vars

\* a login of an Inactive user was just refused while the other user, logged
\* in, holds tokens: the Inactive row still has the OTP of its mail
C29_Witness ==
    /\ resp.op = "login"
    /\ resp.status = 401
    /\ issued # {}
    /\ \E i \in RowsOf(users, resp.email) :
          /\ ~users[i].is_active
          /\ \E k \in 1..Len(sent) : /\ sent[k].to = resp.email
                                     /\ users[i].otp = <<sent[k].otp>>

\* C30: every token handed out by login or refresh names an Active user: the
\* tokens of a 201 login or a 200 refresh have an Active row as subject, every
\* issued token has one at all times, and a 200 of get_current_user for an
\* issued token returns an Active user.
C30_IssuedTokensNameActiveUsers ==
    /\ \A tok \in issued :
          /\ RowsOf(users, tok.sub) # {}
          /\ \A i \in RowsOf(users, tok.sub) : users[i].is_active
    /\ ((resp.op = "login" /\ resp.status = 201)
           \/ (resp.op = "refresh" /\ resp.status = 200)) =>
          /\ resp.access_token.sub = resp.refresh_token.sub
          /\ RowsOf(users, resp.access_token.sub) # {}
          /\ \A i \in RowsOf(users, resp.access_token.sub) : users[i].is_active
    /\ (resp.op = "user" /\ resp.status = 200 /\ resp.token \in issued) =>
          /\ resp.user.is_active
          /\ resp.user.email = resp.token.sub

\* get_current_user just returned the user of an issued access token while
\* the other account, registered, is still Inactive and has no token
C30_Witness ==
    /\ resp.op = "user"
    /\ resp.status = 200
    /\ resp.token \in issued
    /\ resp.user.is_active
    /\ \E i \in 1..Len(users) :
          /\ ~users[i].is_active
          /\ \A tok \in issued : tok.sub # users[i].email

\* C22: every request passes the rate-limiter gate before its handler runs:
\* while every client's window is exhausted (max_requests calls counted, not
\* more than window_time since the window start), whoever sends a request
\* gets 429 and no step changes users, contacts, mails or issued tokens.
C22_GateBeforeEveryHandler ==
    [][(\A c \in Clients :
           /\ requests[c] # None
           /\ requests[c][2] >= max_requests
           /\ clock - requests[c][1] <= window_time) =>
         /\ users' = users
         /\ contacts' = contacts
         /\ sent' = sent
         /\ issued' = issued]_vars

\* C24: email is unique among users under concurrency: whatever the
\* interleaving of concurrent signups, the users table never holds two rows
\* with the same email.
C24_EmailUniqueUnderConcurrency ==
    \A e \in Emails : Cardinality(RowsOf(users, e)) <= 1

====
